---- MODULE Spec2Model ----
(***************************************************************************)
(* Model of unified_z_modulation.py: SynergisticProcessor, the streaming   *)
(* G-code post-processor that superimposes a square-wave Z modulation on   *)
(* infill and a cumulative "bricklayer" Z shift on internal perimeters.    *)
(*                                                                         *)
(* Text.   A line is a sequence of one-character strings, so that the      *)
(*         regular expressions, substring tests and rstrip of the source   *)
(*         are computed character by character.                            *)
(* Numbers. A float is modelled as an integer number of ten-thousandths    *)
(*         (Unit = 10^4, so that every product stays below 2^31);          *)
(*         "%.3f" rounds that to thousandths.  Binary rounding error of    *)
(*         IEEE doubles (far below 10^-4 here) is not modelled.            *)
(***************************************************************************)
EXTENDS Integers, Sequences, FiniteSets, TLC

VARIABLES
    \* configuration attributes of the processor object (__init__)
    infill_amplitude, wavelength, transition_length,
    bricklayer_shift, layer_group_size,
    \* state attributes of the processor object
    current_layer, total_z_shift,
    \* locals of process_gcode
    layer_lines, current_feature,
    \* the two files: the lines read from f_in so far, the lines written to f_out
    f_in, f_out,
    \* position of the pass and the exception that ended it ("none" if none)
    pc, error,
    \* the Line Rewriter (_update_z_value) on its own: the arguments, the line
    \* returned, and the line returned when that one is rewritten again
    rw_line, rw_new_z, rw_result, rw_again,
    \* the files of the earlier calls of process_gcode on the same object
    calls,
    \* the square wave (_square_wave_z) on its own: a point, a second Y, the
    \* layer parity, and the delta returned for (sq_x, sq_y) and (sq_x, sq_y2)
    sq_x, sq_y, sq_y2, sq_parity, sq_delta, sq_delta2

config == <<infill_amplitude, wavelength, transition_length,
            bricklayer_shift, layer_group_size>>
rw_vars == <<rw_line, rw_new_z, rw_result, rw_again>>
sq_vars == <<sq_x, sq_y, sq_y2, sq_parity, sq_delta, sq_delta2>>
pass_vars == <<current_layer, total_z_shift, layer_lines, current_feature,
               f_in, f_out, error>>
vars == <<config, pass_vars, pc, rw_vars, calls, sq_vars>>

----------------------------------------------------------------------------
(* Bounds of the model *)

\* longest input stream explored (lines read from f_in)
MaxLines == 3

\* most calls of process_gcode explored on one processor object
MaxCalls == 2

----------------------------------------------------------------------------
(* Numbers *)

\* one millimetre (1.0) in model units
Unit == 10 ^ 4

\* values set by __init__
DefaultAmplitude == 1500
DefaultWavelength == 40000
DefaultTransition == 2000
DefaultBrickShift == 1000
DefaultGroupSize == 2

Digits == <<"0", "1", "2", "3", "4", "5", "6", "7", "8", "9">>
DigitSet == {Digits[i] : i \in 1..10}
DigitVal(c) == (CHOOSE i \in 1..10 : Digits[i] = c) - 1
DigitChar(n) == Digits[n + 1]

Abs(n) == IF n < 0 THEN -n ELSE n

\* value of the decimal digits s[from..to] (0 when there are none)
RECURSIVE DecVal(_, _, _)
DecVal(s, from, to) ==
    IF to < from THEN 0
    ELSE 10 * DecVal(s, from, to - 1) + DigitVal(s[to])

\* decimal digits of a natural number (below 10^9)
IntToChars(n) ==
    LET d == CHOOSE k \in 1..9 : n < 10 ^ k /\ (k = 1 \/ n >= 10 ^ (k - 1))
    IN  [k \in 1..d |-> DigitChar((n \div (10 ^ (d - k))) % 10)]

\* float(text) for a text of digits and dots (the only texts the regular
\* expression [\d\.]+ can hand to it): it raises ValueError unless the text
\* has at least one digit and at most one dot.
FloatOk(s) ==
    /\ Cardinality({i \in 1..Len(s) : s[i] = "."}) <= 1
    /\ \E i \in 1..Len(s) : s[i] \in DigitSet

FloatVal(s) ==
    LET dots == {i \in 1..Len(s) : s[i] = "."}
        d == IF dots = {} THEN Len(s) + 1 ELSE CHOOSE i \in dots : TRUE
    IN  DecVal(s, 1, d - 1) * Unit
        + (IF d < Len(s)
           THEN (DecVal(s, d + 1, Len(s)) * Unit) \div (10 ^ (Len(s) - d))
           ELSE 0)

\* f"{v:.3f}": sign, integer digits, ".", exactly three decimals; the value
\* is rounded to the nearest thousandth, and a negative value keeps its sign
\* even when it rounds to zero ("-0.000").  An exact decimal tie (x.xxx5) is
\* decided in Python by the binary value of the double; here it goes to the
\* even neighbour, and no input of the model produces one.
Format3(v) ==
    LET m == Abs(v)
        step == Unit \div 1000
        q == m \div step
        r == m % step
        t == IF 2 * r > step \/ (2 * r = step /\ q % 2 = 1) THEN q + 1 ELSE q
        f == t % 1000
    IN  (IF v < 0 THEN <<"-">> ELSE <<>>)
        \o IntToChars(t \div 1000) \o <<".">>
        \o <<DigitChar(f \div 100), DigitChar((f \div 10) % 10), DigitChar(f % 10)>>

----------------------------------------------------------------------------
(* Text *)

\* characters str.rstrip() removes
Whitespace == {" ", "\t", "\n", "\r"}

\* line.rstrip(): the line up to its last character that is no whitespace
rstrip(s) ==
    SubSeq(s, 1, CHOOSE n \in 0..Len(s) :
                     /\ n = 0 \/ s[n] \notin Whitespace
                     /\ \A k \in (n + 1)..Len(s) : s[k] \in Whitespace)

\* line.startswith(p)
StartsWith(s, p) == Len(p) <= Len(s) /\ SubSeq(s, 1, Len(p)) = p

\* p in line
Contains(s, p) ==
    \E i \in 1..(Len(s) - Len(p) + 1) : SubSeq(s, i, i + Len(p) - 1) = p

\* the character class [\d\.]
IsNumChar(c) == c \in DigitSet \cup {"."}

\* a match of <letter>[\d\.]+ starts at index i.  The letters are no
\* characters of [\d\.], so no match starts inside another one and the
\* matches re.finditer and re.sub find, leftmost first and non-overlapping,
\* are exactly these.
TokenAt(s, i, letters) ==
    i < Len(s) /\ s[i] \in letters /\ IsNumChar(s[i + 1])

\* last index of the greedy match of [\d\.]+ that starts at index i
RunEnd(s, i) ==
    CHOOSE j \in i..Len(s) :
        /\ \A k \in i..j : IsNumChar(s[k])
        /\ j = Len(s) \/ ~IsNumChar(s[j + 1])

\* index i lies in the [\d\.]+ part of a match of Z[\d\.]+
InZToken(s, i) ==
    \E j \in 1..(i - 1) :
        /\ s[j] = "Z"
        /\ \A k \in (j + 1)..i : IsNumChar(s[k])

\* re.sub(r"Z[\d\.]+", repl, line) from index i on: every match is replaced
RECURSIVE SubZ(_, _, _)
SubZ(s, i, repl) ==
    IF i > Len(s) THEN <<>>
    ELSE (IF TokenAt(s, i, {"Z"}) THEN repl
          ELSE IF InZToken(s, i) THEN <<>>
          ELSE <<s[i]>>) \o SubZ(s, i + 1, repl)

----------------------------------------------------------------------------
(* class PrintFeature *)

INFILL == "INFILL"
INTERNAL_PERIMETER == "INTERNAL_PERIMETER"
EXTERNAL_PERIMETER == "EXTERNAL_PERIMETER"
PrintFeature == {INFILL, INTERNAL_PERIMETER, EXTERNAL_PERIMETER}

\* the marker texts of _detect_feature and _is_layer_change
TypeInfillMarker ==
    <<";", "T", "Y", "P", "E", ":", "I", "n", "t", "e", "r", "n", "a", "l",
      " ", "i", "n", "f", "i", "l", "l">>
TypeInternalMarker ==
    <<";", "T", "Y", "P", "E", ":", "I", "n", "t", "e", "r", "n", "a", "l",
      " ", "p", "e", "r", "i", "m", "e", "t", "e", "r">>
TypeExternalMarker ==
    <<";", "T", "Y", "P", "E", ":", "E", "x", "t", "e", "r", "n", "a", "l",
      " ", "p", "e", "r", "i", "m", "e", "t", "e", "r">>
LayerPrefix == <<";", "L", "A", "Y", "E", "R", ":">>
ChangeLayerMarker ==
    <<";", "C", "H", "A", "N", "G", "E", "_", "L", "A", "Y", "E", "R">>

----------------------------------------------------------------------------
(* class SynergisticProcessor: the pure methods *)

\* _is_layer_change without its second test
_is_layer_change_prefix_only(line) == StartsWith(line, LayerPrefix)

_is_layer_change(line) ==
    StartsWith(line, LayerPrefix) \/ Contains(line, ChangeLayerMarker)

\* _detect_feature without the latch: a line without marker gives the
\* initial feature
_detect_feature_not_sticky(line, feature) ==
    IF Contains(line, TypeInfillMarker) THEN INFILL
    ELSE IF Contains(line, TypeInternalMarker) THEN INTERNAL_PERIMETER
    ELSE EXTERNAL_PERIMETER

_detect_feature(line, feature) ==
    IF Contains(line, TypeInfillMarker) THEN INFILL
    ELSE IF Contains(line, TypeInternalMarker) THEN INTERNAL_PERIMETER
    ELSE IF Contains(line, TypeExternalMarker) THEN EXTERNAL_PERIMETER
    ELSE feature

\* _parse_coords: [err, coords].  coords maps each axis letter that has a
\* token to the value of its last token; err is "ValueError" when float()
\* rejects the text of a token.
_parse_coords(line) ==
    LET toks == {i \in 1..Len(line) : TokenAt(line, i, {"X", "Y", "Z"})}
        text(i) == SubSeq(line, i + 1, RunEnd(line, i + 1))
        axes == {line[i] : i \in toks}
        last(a) == CHOOSE i \in toks :
                       line[i] = a /\ \A j \in toks : line[j] = a => j <= i
    IN  IF \E i \in toks : ~FloatOk(text(i))
        THEN [err |-> "ValueError", coords |-> <<>>]
        ELSE [err |-> "none",
              coords |-> [a \in axes |-> FloatVal(text(last(a)))]]

\* _update_z_value with re.sub(..., count=1): the first match alone
_update_z_value_first_match(line, new_z) ==
    LET starts == {i \in 1..Len(line) : TokenAt(line, i, {"Z"})}
        j == CHOOSE a \in starts : \A b \in starts : a <= b
    IN  IF \E i \in 1..Len(line) : line[i] = "Z"
        THEN IF starts = {} THEN line
             ELSE SubSeq(line, 1, j - 1) \o <<"Z">> \o Format3(new_z)
                  \o SubSeq(line, RunEnd(line, j + 1) + 1, Len(line))
        ELSE rstrip(line) \o <<" ", "Z">> \o Format3(new_z) \o <<"\n">>

\* _update_z_value without the test "Z" in line: the value is appended to
\* every line
_update_z_value_always_appends(line, new_z) ==
    rstrip(line) \o <<" ", "Z">> \o Format3(new_z) \o <<"\n">>

\* _update_z_value
_update_z_value(line, new_z) ==
    IF \E i \in 1..Len(line) : line[i] = "Z"
    THEN SubZ(line, 1, <<"Z">> \o Format3(new_z))
    ELSE rstrip(line) \o <<" ", "Z">> \o Format3(new_z) \o <<"\n">>

\* math.sin at the multiples of pi/16, in model units; between two of them
\* the value is interpolated linearly
SinTable == <<0, 1951, 3827, 5556, 7071, 8315, 9239, 9808, 10000>>

Sin16(k) ==
    LET m == k % 32
    IN  IF m <= 8 THEN SinTable[m + 1]
        ELSE IF m <= 16 THEN SinTable[17 - m]
        ELSE IF m <= 24 THEN -SinTable[m - 15]
        ELSE -SinTable[33 - m]

\* math.sin(pi * n / d), d > 0
SinPiTimes(n, d) ==
    LET k == (16 * n) \div d
        rem == (16 * n) % d
    IN  Sin16(k) + ((Sin16(k + 1) - Sin16(k)) * rem) \div d

\* math.cos(phase) and math.sin(phase) for phase = parity * math.pi, as
\* plain numbers: cos 0 = 1, cos pi = -1, sin 0 = 0, and sin pi, which is
\* 1.2e-16 in doubles, is 0 at the resolution of the model
CosPhase(parity) == IF parity = 0 THEN 1 ELSE -1

\* math.sin(phase) for a phase that advances by pi / 2 a layer
SinPhase_quarter_turn(parity) == IF parity = 0 THEN 0 ELSE 1
SinPhase(parity) == 0

\* _square_wave_z that adds the smoothing sine to the plateau value
_square_wave_z_sine_on_plateau(x, y, parity) ==
    LET position == x * CosPhase(parity) + y * SinPhase(parity)
        normalized == ((position % wavelength) * Unit) \div wavelength
        s == (transition_length * Unit) \div wavelength
        plateau == IF 2 * normalized < Unit THEN infill_amplitude
                   ELSE -infill_amplitude
    IN  IF normalized < s
        THEN plateau
             + (infill_amplitude * SinPiTimes(normalized, transition_length)) \div Unit
        ELSE IF normalized > Unit - s
        THEN plateau
             + ((-infill_amplitude)
                   * SinPiTimes(normalized - Unit, transition_length)) \div Unit
        ELSE plateau

\* _square_wave_z; phase is given by the layer parity (phase = parity * pi)
_square_wave_z(x, y, parity) ==
    LET position == x * CosPhase(parity) + y * SinPhase(parity)
        normalized == ((position % wavelength) * Unit) \div wavelength
        s == (transition_length * Unit) \div wavelength
    IN  IF normalized < s
        THEN (infill_amplitude * SinPiTimes(normalized, transition_length)) \div Unit
        ELSE IF normalized > Unit - s
        THEN ((-infill_amplitude)
                 * SinPiTimes(normalized - Unit, transition_length)) \div Unit
        ELSE IF 2 * normalized < Unit THEN infill_amplitude
        ELSE -infill_amplitude

\* _modify_infill without the return on empty coords
_modify_infill_no_early_return(line, brick_z_shift, layer) ==
    LET p == _parse_coords(line)
        coords == p.coords
        new_z == (IF "Z" \in DOMAIN coords THEN coords["Z"] ELSE 0)
                 + _square_wave_z(coords["X"], coords["Y"], layer % 2)
                 + brick_z_shift
    IN  IF p.err # "none" THEN [err |-> p.err, line |-> line]
        ELSE IF "X" \notin DOMAIN coords \/ "Y" \notin DOMAIN coords
        THEN [err |-> "KeyError", line |-> line]
        ELSE [err |-> "none", line |-> _update_z_value(line, new_z)]

\* _modify_infill: [err, line]
_modify_infill(line, brick_z_shift, layer) ==
    LET p == _parse_coords(line)
        coords == p.coords
        new_z == (IF "Z" \in DOMAIN coords THEN coords["Z"] ELSE 0)
                 + _square_wave_z(coords["X"], coords["Y"], layer % 2)
                 + brick_z_shift
    IN  IF p.err # "none" THEN [err |-> p.err, line |-> line]
        ELSE IF DOMAIN coords = {} THEN [err |-> "none", line |-> line]
        ELSE IF "X" \notin DOMAIN coords \/ "Y" \notin DOMAIN coords
        THEN [err |-> "KeyError", line |-> line]
        ELSE [err |-> "none", line |-> _update_z_value(line, new_z)]

\* _modify_internal_perimeter that forgets the bricklayer shift
_modify_internal_perimeter_no_shift(line, brick_z_shift) ==
    LET p == _parse_coords(line)
        coords == p.coords
    IN  IF p.err # "none" THEN [err |-> p.err, line |-> line]
        ELSE IF DOMAIN coords = {} \/ "Z" \notin DOMAIN coords
        THEN [err |-> "none", line |-> line]
        ELSE [err |-> "none", line |-> _update_z_value(line, coords["Z"])]

\* _modify_internal_perimeter: [err, line]
_modify_internal_perimeter(line, brick_z_shift) ==
    LET p == _parse_coords(line)
        coords == p.coords
    IN  IF p.err # "none" THEN [err |-> p.err, line |-> line]
        ELSE IF DOMAIN coords = {} \/ "Z" \notin DOMAIN coords
        THEN [err |-> "none", line |-> line]
        ELSE [err |-> "none",
              line |-> _update_z_value(line, coords["Z"] + brick_z_shift)]

\* _process_line: [err, line]
_process_line(line, feature, brick_z_shift, layer) ==
    IF feature = INFILL THEN _modify_infill(line, brick_z_shift, layer)
    ELSE IF feature = INTERNAL_PERIMETER
    THEN _modify_internal_perimeter(line, brick_z_shift)
    ELSE [err |-> "none", line |-> line]

\* _calculate_bricklayer_shift that tests (layer + 1) % group_size
_calculate_bricklayer_shift_off_by_one(layer, total) ==
    IF (layer + 1) % layer_group_size = 0 THEN total + bricklayer_shift ELSE total

\* _calculate_bricklayer_shift: the new value of total_z_shift, which is also
\* the value returned
_calculate_bricklayer_shift(layer, total) ==
    IF layer % layer_group_size = 0 THEN total + bricklayer_shift ELSE total

\* _process_layer: [err, total, written].  The lines are transformed and
\* written one by one; an exception ends the loop with the lines before it
\* written.  With layer_group_size = 0 the modulo in
\* _calculate_bricklayer_shift raises before total_z_shift is assigned and
\* before any line is written.
_process_layer(lines, feature, layer, total) ==
    IF layer_group_size = 0
    THEN [err |-> "ZeroDivisionError", total |-> total, written |-> <<>>]
    ELSE
    LET brick_z_shift == _calculate_bricklayer_shift(layer, total)
        r(i) == _process_line(lines[i], feature, brick_z_shift, layer)
        bad == {i \in 1..Len(lines) : r(i).err # "none"}
        stop == IF bad = {} THEN Len(lines) + 1
                ELSE CHOOSE i \in bad : \A j \in bad : i <= j
    IN  [err |-> IF bad = {} THEN "none" ELSE r(stop).err,
         total |-> brick_z_shift,
         written |-> [i \in 1..(stop - 1) |-> r(i).line]]

----------------------------------------------------------------------------
(* Inputs *)

\* a layer-change line by its prefix
LineLayer ==
    <<";", "L", "A", "Y", "E", "R", ":", "1", "\n">>
\* a layer-change line by the substring
LineChangeLayer ==
    <<"G", "9", "2", " ", "E", "0", " ", ";", "C", "H", "A", "N", "G", "E",
      "_", "L", "A", "Y", "E", "R", "\n">>
\* a layer-change line that holds a feature marker
LineLayerMarker ==
    <<";", "L", "A", "Y", "E", "R", ":", "2", ";", "T", "Y", "P", "E", ":",
      "I", "n", "t", "e", "r", "n", "a", "l", " ", "i", "n", "f", "i", "l",
      "l", "\n">>
\* the three feature markers
LineTypeInfill ==
    <<";", "T", "Y", "P", "E", ":", "I", "n", "t", "e", "r", "n", "a", "l",
      " ", "i", "n", "f", "i", "l", "l", "\n">>
LineTypeInternal ==
    <<";", "T", "Y", "P", "E", ":", "I", "n", "t", "e", "r", "n", "a", "l",
      " ", "p", "e", "r", "i", "m", "e", "t", "e", "r", "\n">>
LineTypeExternal ==
    <<";", "T", "Y", "P", "E", ":", "E", "x", "t", "e", "r", "n", "a", "l",
      " ", "p", "e", "r", "i", "m", "e", "t", "e", "r", "\n">>
\* a move with X, Y and Z (positive plateau on an even layer)
LineXYZ ==
    <<"G", "1", " ", "X", "1", ".", "0", " ", "Y", "0", ".", "0", " ", "Z",
      "0", ".", "2", "\n">>
\* a move with X, Y and Z
LinePerimeter ==
    <<"G", "1", " ", "X", "5", " ", "Y", "5", " ", "Z", "0", ".", "4",
      "\n">>
\* a move without Z, with trailing blanks (falling smoothing band)
LineNoZ ==
    <<"G", "1", " ", "X", "3", ".", "9", " ", "Y", "1", " ", "\n">>
\* a move with Z alone
LineOnlyZ ==
    <<"G", "1", " ", "Z", "0", ".", "6", "\n">>
\* a move without Z token whose comment holds the letter Z
LineZComment ==
    <<"G", "1", " ", "X", "0", ".", "1", " ", "Y", "0", " ", ";", "Z",
      "\n">>
\* a move whose X token is no decimal number
LineBadNumber ==
    <<"G", "1", " ", "X", "1", ".", "2", ".", "3", " ", "Y", "0", "\n">>
\* a command without coordinates
LineNoCoords ==
    <<"M", "1", "0", "7", "\n">>
\* further lines handed to the Line Rewriter on its own
\* two Z tokens
LineTwoZ ==
    <<"G", "1", " ", "Z", "0", ".", "2", " ", "X", "2", " ", "Z", "0", ".",
      "4", "\n">>
\* the letter Z before a sign: no Z token
LineZMinus ==
    <<"G", "1", " ", "X", "1", " ", "Z", "-", "1", "\n">>
\* a Z token of digits and dots
LineZDots ==
    <<"G", "1", " ", "Z", "1", ".", "2", ".", "3", " ", "F", "9", "\n">>
\* a last line without newline
LineNoNewline ==
    <<"G", "1", " ", "X", "2">>
\* a Z token at the start, the letter Z again in the comment
LineZFirst ==
    <<"Z", ".", "5", " ", ";", "Z", "\n">>

\* the lines an input stream is made of
LineAlphabet ==
    {LineLayer, LineChangeLayer, LineLayerMarker, LineTypeInfill,
     LineTypeInternal, LineTypeExternal, LineXYZ, LinePerimeter, LineNoZ,
     LineOnlyZ, LineZComment, LineBadNumber, LineNoCoords}

\* the lines and the target values given to the Line Rewriter
RwLines ==
    LineAlphabet \cup {LineTwoZ, LineZMinus, LineZDots, LineNoNewline, LineZFirst}
RwValues == {-2000, -500, -4, 0, 1500, 4500, 12346, 120000}

----------------------------------------------------------------------------
(* The conversion pass: process_gcode *)

\* the object after SynergisticProcessor()
InitObject ==
    /\ infill_amplitude = DefaultAmplitude
    /\ wavelength = DefaultWavelength
    /\ transition_length = DefaultTransition
    /\ bricklayer_shift = DefaultBrickShift
    /\ layer_group_size = DefaultGroupSize
    /\ current_layer = 0
    /\ total_z_shift = 0

\* nothing has been given to the Line Rewriter on its own
InitRewriterIdle ==
    /\ rw_line = <<>>
    /\ rw_new_z = 0
    /\ rw_result = <<>>
    /\ rw_again = <<>>

\* nothing has been given to the square wave on its own
InitSquareWaveIdle ==
    /\ sq_x = 0
    /\ sq_y = 0
    /\ sq_y2 = 0
    /\ sq_parity = 0
    /\ sq_delta = 0
    /\ sq_delta2 = 0

\* process_gcode has not been called: no locals, no files
InitPassIdle ==
    /\ layer_lines = <<>>
    /\ current_feature = EXTERNAL_PERIMETER
    /\ f_in = <<>>
    /\ f_out = <<>>
    /\ error = "none"
    /\ calls = <<>>

Init ==
    /\ InitObject
    /\ InitPassIdle
    /\ pc = "idle"
    /\ InitRewriterIdle
    /\ InitSquareWaveIdle

\* process_gcode is entered: both files are opened, the locals are set
Open ==
    /\ pc = "idle"
    /\ pc' = "reading"
    /\ layer_lines' = <<>>
    /\ current_feature' = EXTERNAL_PERIMETER
    /\ f_in' = <<>>
    /\ f_out' = <<>>
    /\ UNCHANGED <<config, current_layer, total_z_shift, error, rw_vars, calls, sq_vars>>

\* one turn of the loop on a layer-change line: flush, reset, count
LayerChange(line) ==
    /\ pc = "reading"
    /\ Len(f_in) < MaxLines
    /\ _is_layer_change(line)
    /\ \E r \in {_process_layer(layer_lines, current_feature,
                                 current_layer, total_z_shift)} :
           /\ f_in' = Append(f_in, line)
           /\ f_out' = f_out \o r.written
           /\ total_z_shift' = r.total
           /\ IF r.err = "none"
              THEN /\ layer_lines' = <<>>
                   /\ current_layer' = current_layer + 1
                   /\ UNCHANGED <<pc, error>>
              ELSE /\ pc' = "failed"
                   /\ error' = r.err
                   /\ UNCHANGED <<layer_lines, current_layer>>
    /\ UNCHANGED <<config, current_feature, rw_vars, calls, sq_vars>>

\* one turn of the loop on any other line: classify, buffer
BufferLine(line) ==
    /\ pc = "reading"
    /\ Len(f_in) < MaxLines
    /\ ~_is_layer_change(line)
    /\ f_in' = Append(f_in, line)
    /\ current_feature' = _detect_feature(line, current_feature)
    /\ layer_lines' = Append(layer_lines, line)
    /\ UNCHANGED <<config, current_layer, total_z_shift, f_out, pc, error, rw_vars, calls, sq_vars>>

\* the end of process_gcode without the flush of the final layer
EndOfStream_no_final_flush ==
    /\ pc = "reading"
    /\ pc' = "done"
    /\ UNCHANGED <<config, pass_vars, rw_vars, calls, sq_vars>>

\* f_in is exhausted: the final layer is flushed if it has lines
EndOfStream ==
    /\ pc = "reading"
    /\ IF layer_lines # <<>>
       THEN \E r \in {_process_layer(layer_lines, current_feature,
                                     current_layer, total_z_shift)} :
                /\ f_out' = f_out \o r.written
                /\ total_z_shift' = r.total
                /\ pc' = IF r.err = "none" THEN "done" ELSE "failed"
                /\ error' = r.err
       ELSE /\ pc' = "done"
            /\ UNCHANGED <<f_out, total_z_shift, error>>
    /\ UNCHANGED <<config, current_layer, layer_lines, current_feature, f_in, rw_vars, calls, sq_vars>>

Next ==
    \/ Open
    \/ \E line \in LineAlphabet : LayerChange(line)
    \/ \E line \in LineAlphabet : BufferLine(line)
    \/ EndOfStream

Spec == Init /\ [][Next]_vars

----------------------------------------------------------------------------
(* process_gcode called again on the same object, on the same input file *)

\* the lines of a file that is converted more than once
RepeatedLines ==
    {LineLayer, LineTypeInfill, LineTypeInternal, LineXYZ, LinePerimeter,
     LineBadNumber}

\* process_gcode is entered again once a call has returned or raised: the
\* files are opened and the locals are set as in every call; the attributes
\* current_layer and total_z_shift are assigned in __init__ alone and keep
\* the values the earlier call left
OpenAgain ==
    /\ pc \in {"done", "failed"}
    /\ Len(calls) < MaxCalls - 1
    /\ calls' = Append(calls, [in |-> f_in, out |-> f_out, pc |-> pc])
    /\ pc' = "reading"
    /\ error' = "none"
    /\ layer_lines' = <<>>
    /\ current_feature' = EXTERNAL_PERIMETER
    /\ f_in' = <<>>
    /\ f_out' = <<>>
    /\ UNCHANGED <<config, current_layer, total_z_shift, rw_vars, sq_vars>>

\* the input file of a later call is the file the first call read: line is
\* its next line
NextOfFile(line) ==
    calls # <<>>
        => /\ Len(f_in) < Len(calls[1].in)
           /\ line = calls[1].in[Len(f_in) + 1]

\* the input file is exhausted
EndOfFile == calls # <<>> => Len(f_in) = Len(calls[1].in)

RepeatedNext ==
    \/ Open
    \/ \E line \in RepeatedLines : NextOfFile(line) /\ LayerChange(line)
    \/ \E line \in RepeatedLines : NextOfFile(line) /\ BufferLine(line)
    \/ EndOfFile /\ EndOfStream
    \/ OpenAgain

SpecRepeated == Init /\ [][RepeatedNext]_vars

----------------------------------------------------------------------------
(* process_gcode on a processor whose configuration attributes hold other  *)
(* values than the ones __init__ assigns.  __init__ has no parameters; the *)
(* five attributes are plain instance attributes, which the caller sets    *)
(* between the construction and the call of process_gcode.                 *)

\* the values given to the attributes: the defaults, a negative amplitude,
\* a transition_length of wavelength / 2, a negative shift, and the group
\* sizes 0 and 1
ConfiguredAmplitudes == {DefaultAmplitude, -DefaultAmplitude}
ConfiguredTransitions == {DefaultTransition, DefaultWavelength \div 2}
ConfiguredBrickShifts == {DefaultBrickShift, -DefaultBrickShift}
ConfiguredGroupSizes == {0, 1, DefaultGroupSize}

\* the lines of the files converted with these configurations
ConfiguredLines ==
    {LineLayer, LineTypeInfill, LineTypeInternal, LineXYZ, LinePerimeter}

\* the object after SynergisticProcessor() and the assignments of the
\* caller; nothing in the class looks at the values before the first flush
ConfiguredInit ==
    /\ infill_amplitude \in ConfiguredAmplitudes
    /\ wavelength = DefaultWavelength
    /\ transition_length \in ConfiguredTransitions
    /\ bricklayer_shift \in ConfiguredBrickShifts
    /\ layer_group_size \in ConfiguredGroupSizes
    /\ current_layer = 0
    /\ total_z_shift = 0
    /\ InitPassIdle
    /\ pc = "idle"
    /\ InitRewriterIdle
    /\ InitSquareWaveIdle

ConfiguredNext ==
    \/ Open
    \/ \E line \in ConfiguredLines : LayerChange(line)
    \/ \E line \in ConfiguredLines : BufferLine(line)
    \/ EndOfStream

SpecConfigured == ConfiguredInit /\ [][ConfiguredNext]_vars

----------------------------------------------------------------------------
(* The Line Rewriter on its own: _update_z_value is called on a line, then *)
(* on the line it returned, with the same value                            *)

RwInit ==
    /\ InitObject
    /\ InitPassIdle
    /\ InitSquareWaveIdle
    /\ pc = "rw_call"
    /\ rw_line \in RwLines
    /\ rw_new_z \in RwValues
    /\ rw_result = <<>>
    /\ rw_again = <<>>

RwCall ==
    /\ pc = "rw_call"
    /\ rw_result' = _update_z_value(rw_line, rw_new_z)
    /\ pc' = "rw_return"
    /\ UNCHANGED <<config, pass_vars, rw_line, rw_new_z, rw_again, calls, sq_vars>>

RwCallAgain ==
    /\ pc = "rw_return"
    /\ rw_again' = _update_z_value(rw_result, rw_new_z)
    /\ pc' = "rw_return_again"
    /\ UNCHANGED <<config, pass_vars, rw_line, rw_new_z, rw_result, calls, sq_vars>>

RwNext == RwCall \/ RwCallAgain

SpecRewriter == RwInit /\ [][RwNext]_vars

----------------------------------------------------------------------------
(* The square wave on its own: _square_wave_z is called for a point of a   *)
(* layer, then for the point with the same X and another Y                 *)

\* X and Y of the points: what _parse_coords can return (no sign), in both
\* smoothing bands, on both plateaus, at the band edges and beyond one
\* wavelength.  X = 0.2 and X = 3.8, where normalized ties with the band
\* limit and the result in doubles hangs on the last bit, are left out.
SqXs ==
    {0, 500, 1000, 1500, 1996, 2400, 10000, 19996, 20000, 30000, 37600,
     38500, 39000, 39500, 40000, 41000, 62000, 100000}
SqYs == {0, 10000, 25000, 37000}

SqInit ==
    /\ InitObject
    /\ InitPassIdle
    /\ InitRewriterIdle
    /\ pc = "sq_call"
    /\ sq_x \in SqXs
    /\ sq_y \in SqYs
    /\ sq_y2 \in SqYs
    /\ sq_parity \in {0, 1}
    /\ sq_delta = 0
    /\ sq_delta2 = 0

SqCall ==
    /\ pc = "sq_call"
    /\ sq_delta' = _square_wave_z(sq_x, sq_y, sq_parity)
    /\ pc' = "sq_return"
    /\ UNCHANGED <<config, pass_vars, rw_vars, calls,
                   sq_x, sq_y, sq_y2, sq_parity, sq_delta2>>

SqCallOther ==
    /\ pc = "sq_return"
    /\ sq_delta2' = _square_wave_z(sq_x, sq_y2, sq_parity)
    /\ pc' = "sq_return_other"
    /\ UNCHANGED <<config, pass_vars, rw_vars, calls,
                   sq_x, sq_y, sq_y2, sq_parity, sq_delta>>

SqNext == SqCall \/ SqCallOther

SpecSquareWave == SqInit /\ [][SqNext]_vars

----------------------------------------------------------------------------
(* Vocabulary of the properties, read off the files f_in and f_out *)

\* a layer-change line, as the input format defines it
IsLayerChangeLine(line) ==
    StartsWith(line, LayerPrefix) \/ Contains(line, ChangeLayerMarker)

\* the lines of f_in that are no layer-change lines
Kept == {i \in 1..Len(f_in) : ~IsLayerChangeLine(f_in[i])}

\* position in f_out of the line f_in[i], i in Kept
OutIndex(i) == Cardinality({j \in Kept : j <= i})

\* f_in[i] has been written
Emitted(i) == OutIndex(i) <= Len(f_out)

\* layer of f_in[i]: the number of layer-change lines before it
LayerOf(i) == Cardinality({j \in 1..i : IsLayerChangeLine(f_in[j])})

\* the current feature after f_in[1..i] has been read; for i in Kept, the
\* feature that is current when f_in[i] is buffered
RECURSIVE FeatureAfter(_)
FeatureAfter(i) ==
    IF i = 0 THEN EXTERNAL_PERIMETER
    ELSE IF IsLayerChangeLine(f_in[i]) THEN FeatureAfter(i - 1)
    ELSE _detect_feature(f_in[i], FeatureAfter(i - 1))

\* last line of the layer of f_in[i] among the lines read
LayerEnd(i) ==
    CHOOSE j \in i..Len(f_in) :
        /\ \A k \in i..j : ~IsLayerChangeLine(f_in[k])
        /\ j = Len(f_in) \/ IsLayerChangeLine(f_in[j + 1])

\* the feature the layer of f_in[i] is flushed with: the one that is
\* current when the layer ends
FlushFeature(i) == FeatureAfter(LayerEnd(i))

\* value of the bricklayer accumulator for layer L
Accumulator(L) == bricklayer_shift * ((L \div layer_group_size) + 1)

\* the line has a Z axis token: Z immediately followed by a number
HasZToken(line) == \E i \in 1..Len(line) : TokenAt(line, i, {"Z"})

\* the line has an axis token, and all its axis tokens are decimal numbers
Parses(line) == _parse_coords(line).err = "none"
HasAxis(line, a) == a \in DOMAIN _parse_coords(line).coords
HasCoords(line) == DOMAIN _parse_coords(line).coords # {}
AxisValue(line, a) ==
    IF HasAxis(line, a) THEN _parse_coords(line).coords[a] ELSE 0

\* the text of every Z token of the line is the value v to 3 decimals, and
\* there is one
EveryZTokenIs(line, v) ==
    /\ HasZToken(line)
    /\ \A i \in 1..Len(line) :
           TokenAt(line, i, {"Z"})
               => SubSeq(line, i + 1, RunEnd(line, i + 1)) = Format3(v)

\* the line holds one of the three ';TYPE:' marker substrings
HasMarker(line) ==
    \/ Contains(line, TypeInfillMarker)
    \/ Contains(line, TypeInternalMarker)
    \/ Contains(line, TypeExternalMarker)

\* the line has an X, Y or Z axis token: the letter immediately followed by
\* a digit or a dot
HasAxisToken(line) == \E i \in 1..Len(line) : TokenAt(line, i, {"X", "Y", "Z"})

\* the line has an axis token whose text is no decimal number
HasMalformedToken(line) ==
    \E i \in 1..Len(line) :
        /\ TokenAt(line, i, {"X", "Y", "Z"})
        /\ ~FloatOk(SubSeq(line, i + 1, RunEnd(line, i + 1)))

\* exactly one line of text
OneLine(line) ==
    /\ line # <<>>
    /\ \A k \in 1..Len(line) : (line[k] = "\n") <=> (k = Len(line))

----------------------------------------------------------------------------
(* Properties *)

\* C1: at each flush every buffered line is transformed according to the
\* feature that was current when that line was read, not according to one
\* feature shared by the whole layer.
C1_EachLineByItsOwnFeature ==
    \A i \in Kept :
        LET r == _process_line(f_in[i], FeatureAfter(i),
                               Accumulator(LayerOf(i)), LayerOf(i))
        IN  (Emitted(i) /\ r.err = "none") => f_out[OutIndex(i)] = r.line

\* C2: every line read while the current feature is ExternalPerimeter is
\* written byte-identical, whatever markers follow it in the same layer.
C2_ExternalLinesVerbatim ==
    \A i \in Kept :
        (Emitted(i) /\ FeatureAfter(i) = EXTERNAL_PERIMETER)
            => f_out[OutIndex(i)] = f_in[i]

\* C3: when a pass completes without error, f_out has exactly one line for
\* each line of f_in that is no layer-change line, in the order of f_in, the
\* lines after the last layer-change line included: the k-th line written is
\* one line of text and is the k-th kept line, as one of the features
\* transforms it in its layer.
C3_OneOutputLinePerKeptLine ==
    pc = "done" =>
        /\ Len(f_out) = Cardinality(Kept)
        /\ \A i \in Kept :
               /\ OneLine(f_out[OutIndex(i)])
               /\ \E f \in PrintFeature :
                      LET r == _process_line(f_in[i], f,
                                             Accumulator(LayerOf(i)), LayerOf(i))
                      IN  r.err = "none" /\ f_out[OutIndex(i)] = r.line

\* a completed pass whose final layer has no closing marker
C3_Witness ==
    /\ pc = "done"
    /\ Len(f_in) = 3
    /\ IsLayerChangeLine(f_in[2])
    /\ Len(f_out) = 2
    /\ f_out[1] # f_out[2]

\* C4: a layer-change line is never written and never buffered; reading it
\* flushes the buffer (the lines written are the buffered ones, after what
\* was written before), empties the buffer and adds exactly 1 to
\* current_layer, and leaves the current feature alone.  A flush that raises
\* ends the pass where it stands.
C4_NeverKept ==
    /\ \A k \in 1..Len(layer_lines) : ~IsLayerChangeLine(layer_lines[k])
    /\ \A k \in 1..Len(f_out) : ~IsLayerChangeLine(f_out[k])

C4_Step ==
    (Len(f_in') = Len(f_in) + 1 /\ IsLayerChangeLine(f_in'[Len(f_in')])) =>
        /\ current_feature' = current_feature
        /\ Len(f_out') <= Len(f_out) + Len(layer_lines)
        /\ SubSeq(f_out', 1, Len(f_out)) = f_out
        /\ pc' \in {"reading", "failed"}
        /\ pc' = "reading" =>
               /\ Len(f_out') = Len(f_out) + Len(layer_lines)
               /\ layer_lines' = <<>>
               /\ current_layer' = current_layer + 1
        /\ pc' = "failed" => error' # "none"

\* C4: a layer-change line is never written nor buffered (C4_NeverKept) and
\* only flushes, resets the buffer and adds 1 to current_layer (C4_Step).
C4_LayerChangeConsumed == [](C4_NeverKept) /\ [][C4_Step]_vars

\* a layer-change line has just flushed a layer of two lines
C4_Witness ==
    /\ pc = "reading"
    /\ Len(f_in) = 3
    /\ IsLayerChangeLine(f_in[3])
    /\ Len(f_out) = 2
    /\ layer_lines = <<>>
    /\ current_layer = 1

\* C5: within one pass on a fresh processor total_z_shift never decreases,
\* the accumulator update is evaluated once for each layer index flushed
\* (empty layers between adjacent layer-change lines included), and after
\* the flush of layer L the accumulator is
\* bricklayer_shift * (floor(L / layer_group_size) + 1): it grows by
\* bricklayer_shift at layers 0, group_size, 2*group_size, ... and is
\* unchanged at every other layer.
C5_LayersFlushed ==
    CASE pc = "idle" -> 0
      [] pc = "reading" -> current_layer
      [] pc = "failed" -> current_layer + 1
      [] pc = "done" -> current_layer + (IF layer_lines # <<>> THEN 1 ELSE 0)

C5_Value ==
    total_z_shift =
        IF C5_LayersFlushed = 0 THEN 0 ELSE Accumulator(C5_LayersFlushed - 1)

C5_Step ==
    LET flush ==
            /\ pc = "reading"
            /\ \/ /\ Len(f_in') = Len(f_in) + 1
                  /\ IsLayerChangeLine(f_in'[Len(f_in')])
               \/ f_in' = f_in /\ pc' # "reading" /\ layer_lines # <<>>
    IN  /\ total_z_shift' >= total_z_shift
        /\ total_z_shift' - total_z_shift =
               IF flush /\ current_layer % layer_group_size = 0
               THEN bricklayer_shift ELSE 0

\* C5: the accumulator has the closed-form value after every flush
\* (C5_Value), never decreases and grows by bricklayer_shift exactly at the
\* flush of a layer that is a multiple of layer_group_size (C5_Step).
C5_Accumulator == [](C5_Value) /\ [][C5_Step]_vars

\* three adjacent layer-change lines: layers 0, 1 and 2 flushed empty
C5_Witness ==
    /\ pc = "reading"
    /\ current_layer = 3
    /\ f_out = <<>>
    /\ total_z_shift = 2 * bricklayer_shift

\* C6: a line with a Z token that is processed as InternalPerimeter in layer
\* L is emitted with Z = parsed Z + accumulator of layer L, without any
\* square-wave part; with the default configuration 'G1 X5 Y5 Z0.4' in
\* layer 1 is emitted with Z0.500.  (The feature is the one the line is
\* processed with; C1 is about which feature that is.)
C6_Scenario ==
    <<"G", "1", " ", "X", "5", " ", "Y", "5", " ", "Z", "0", ".", "5", "0", "0", "\n">>

C7_Scenario ==
    <<"G", "1", " ", "X", "1", ".", "0", " ", "Y", "0", ".", "0", " ", "Z", "0", ".", "4", "5", "0", "\n">>

C7_InfillZ ==
    \A i \in Kept :
        (/\ Emitted(i)
         /\ FeatureAfter(i) = INFILL
         /\ FlushFeature(i) = INFILL
         /\ Parses(f_in[i])
         /\ HasCoords(f_in[i]))
            => /\ Contains(f_out[OutIndex(i)],
                           <<"Z">> \o Format3(
                               AxisValue(f_in[i], "Z")
                               + _square_wave_z(AxisValue(f_in[i], "X"),
                                                AxisValue(f_in[i], "Y"),
                                                LayerOf(i) % 2)
                               + Accumulator(LayerOf(i))))
               /\ (f_in[i] = LineXYZ /\ LayerOf(i) = 0)
                      => f_out[OutIndex(i)] = C7_Scenario

\* C8: an Infill line (read and processed as Infill) with an axis token but
\* without X or without Y is transformed with the missing axis as 0 and
\* emitted: the pass does not fail on such a line.
C8_MissingAxisIsZero ==
    \A i \in Kept :
        (/\ FeatureAfter(i) = INFILL
         /\ FlushFeature(i) = INFILL
         /\ Parses(f_in[i])
         /\ HasCoords(f_in[i])
         /\ ~(HasAxis(f_in[i], "X") /\ HasAxis(f_in[i], "Y")))
            => ~(pc = "failed" /\ OutIndex(i) = Len(f_out) + 1)

\* C9: given a line without Z token, the Line Rewriter returns the line
\* without its trailing whitespace, then ' Z<value>' to 3 decimals and a
\* newline, also when the letter Z occurs in the line without forming a Z
\* token.
C9_AppendsWithoutZToken ==
    (pc = "rw_return" /\ ~HasZToken(rw_line))
        => rw_result
               = rstrip(rw_line) \o <<" ", "Z">> \o Format3(rw_new_z) \o <<"\n">>

\* the line with its Z tokens from index i on replaced by repl, everything
\* between them copied
RECURSIVE ReplaceZTokens(_, _, _, _)
ReplaceZTokens(line, i, repl, count) ==
    LET starts == {j \in i..Len(line) : TokenAt(line, j, {"Z"})}
        j == CHOOSE a \in starts : \A b \in starts : a <= b
    IN  IF starts = {} \/ count = 0 THEN SubSeq(line, i, Len(line))
        ELSE SubSeq(line, i, j - 1) \o repl
             \o ReplaceZTokens(line, RunEnd(line, j + 1) + 1, repl, count - 1)

\* C10 as stated: given a line with Z tokens, the Line Rewriter replaces the
\* value of the first Z token only and leaves every other character, any
\* later Z token included, unchanged.
C10_OnlyFirstZReplaced ==
    (pc = "rw_return" /\ HasZToken(rw_line))
        => rw_result
               = ReplaceZTokens(rw_line, 1, <<"Z">> \o Format3(rw_new_z), 1)

\* C10 amended: given a line with Z tokens, the Line Rewriter replaces the
\* value of every Z token by the new value and leaves every other character
\* unchanged.
C10_EveryZReplaced ==
    (pc = "rw_return" /\ HasZToken(rw_line))
        => rw_result
               = ReplaceZTokens(rw_line, 1, <<"Z">> \o Format3(rw_new_z),
                                Len(rw_line))

C10_Witness ==
    /\ pc = "rw_return"
    /\ rw_line = LineTwoZ
    /\ rw_new_z = -2000
    /\ rw_result = <<"G", "1", " ", "Z", "-", "0", ".", "2", "0", "0", " ", "X", "2", " ", "Z", "-", "0", ".", "2", "0", "0", "\n">>

\* C11: the Line Rewriter is idempotent for a fixed Z value: for every line
\* and every target Z (positive, zero or negative), rewriting the line
\* returned by a rewrite with the same Z value returns that same line.
C11_RewriteIsIdempotent ==
    pc = "rw_return_again" => rw_again = rw_result

\* a line without the letter Z and a negative value: the first call appends
\* ' Z-0.200', which is no Z token, and the second call leaves it alone
C11_Witness ==
    /\ pc = "rw_return_again"
    /\ rw_line = LineNoZ
    /\ rw_new_z = -2000
    /\ rw_result # rw_line
    /\ ~HasZToken(rw_result)
    /\ rw_again = rw_result

\* C12: at the start of every call of process_gcode current_layer is 0,
\* total_z_shift is 0.0 and the current feature is ExternalPerimeter, and a
\* call on an object that has converted a file before writes, for the same
\* input, the output that the call on the fresh object wrote.
C12_FreshAtStart ==
    (pc = "reading" /\ f_in = <<>>)
        => /\ current_layer = 0
           /\ total_z_shift = 0
           /\ current_feature = EXTERNAL_PERIMETER

C12_SameOutput ==
    (pc \in {"done", "failed"} /\ calls # <<>> /\ f_in = calls[1].in)
        => f_out = calls[1].out

C12_NoStateOfEarlierPass == C12_FreshAtStart /\ C12_SameOutput

\* C13: the current feature is ExternalPerimeter as long as no marker has
\* been seen; it changes only in a step that reads a line which is no
\* layer-change line and holds one of the three ';TYPE:' markers; every
\* other step, the reading of a layer-change line included, leaves it as it
\* is.
C13_BeforeAnyMarker ==
    (\A i \in Kept : ~HasMarker(f_in[i]))
        => current_feature = EXTERNAL_PERIMETER

C13_Step ==
    current_feature' # current_feature
        => /\ Len(f_in') = Len(f_in) + 1
           /\ ~IsLayerChangeLine(f_in'[Len(f_in')])
           /\ HasMarker(f_in'[Len(f_in')])

C13_StickyFeature == [](C13_BeforeAnyMarker) /\ [][C13_Step]_vars

\* Internal Perimeter is still current after a layer-change line, one that
\* holds the infill marker, and a line without marker in the next layer
C13_Witness ==
    /\ f_in = <<LineTypeInternal, LineLayerMarker, LineNoCoords>>
    /\ current_feature = INTERNAL_PERIMETER
    /\ current_layer = 1

\* C14: a line that is no layer-change line and has no X, Y or Z axis token
\* is written as it was read, whichever feature it is processed with, and
\* is never the line a pass fails on; reading the marker line
\* ';TYPE:Internal infill' makes Infill the current feature, and the marker
\* line is written unmodified like every line without axis token.
C14_Verbatim ==
    \A i \in Kept :
        ~HasAxisToken(f_in[i])
            => /\ Emitted(i) => f_out[OutIndex(i)] = f_in[i]
               /\ ~(pc = "failed" /\ OutIndex(i) = Len(f_out) + 1)

C14_MarkerStep ==
    (Len(f_in') = Len(f_in) + 1 /\ f_in'[Len(f_in')] = LineTypeInfill)
        => current_feature' = INFILL

C14_NoAxisLineUnmodified == [](C14_Verbatim) /\ [][C14_MarkerStep]_vars

\* a command without coordinates and the infill marker line, both flushed
\* as Infill and both written as read
C14_Witness ==
    /\ pc = "done"
    /\ f_in = <<LineTypeInternal, LineNoCoords, LineTypeInfill>>
    /\ current_feature = INFILL
    /\ f_out = f_in

\* the point (sq_x, sq_y) on the wave, as the properties state it: the
\* projected position is X on even layers and -X on odd layers, normalized
\* is its fraction of a wavelength, and the smoothing fraction is
\* s = transition_length / wavelength
SqPosition == IF sq_parity = 0 THEN sq_x ELSE -sq_x
SqNormalized == ((SqPosition % wavelength) * Unit) \div wavelength
SmoothingFraction == (transition_length * Unit) \div wavelength

\* C15: for all X, Y and both layer phases the square-wave delta lies in
\* [-infill_amplitude, +infill_amplitude], in the two smoothing bands as
\* well as on the plateaus.
C15_DeltaWithinAmplitude ==
    /\ pc \in {"sq_return", "sq_return_other"}
           => -infill_amplitude <= sq_delta /\ sq_delta <= infill_amplitude
    /\ pc = "sq_return_other"
           => -infill_amplitude <= sq_delta2 /\ sq_delta2 <= infill_amplitude

\* a point in the falling smoothing band, its delta strictly inside
C15_Witness ==
    /\ pc = "sq_return"
    /\ sq_x = 39000
    /\ sq_parity = 0
    /\ SqNormalized > Unit - SmoothingFraction
    /\ sq_delta = 574

\* C16: in the smoothing bands the divisor of the sine argument is the
\* smoothing fraction s: the delta is A*sin(normalized*pi/s) for
\* normalized < s and -A*sin((normalized - 1)*pi/s) for normalized > 1 - s.
C16_SineOverSmoothingFraction ==
    pc = "sq_return"
        => /\ SqNormalized < SmoothingFraction
                  => sq_delta
                         = (infill_amplitude
                               * SinPiTimes(SqNormalized, SmoothingFraction))
                            \div Unit
           /\ SqNormalized > Unit - SmoothingFraction
                  => sq_delta
                         = ((-infill_amplitude)
                               * SinPiTimes(SqNormalized - Unit, SmoothingFraction))
                            \div Unit

\* C19: with cos 0 = 1, sin 0 = 0, cos pi = -1, sin pi = 0 the delta of a
\* point is that of the position X on even layers and -X on odd layers, and
\* two points of a layer that differ only in Y get the same delta.
C19_DeltaIndependentOfY ==
    /\ pc \in {"sq_return", "sq_return_other"}
           => sq_delta = _square_wave_z(SqPosition, 0, 0)
    /\ pc = "sq_return_other" => sq_delta2 = sq_delta

\* two points of an odd layer in the rising smoothing band, Y = 0 and
\* Y = 3.7
C19_Witness ==
    /\ pc = "sq_return_other"
    /\ sq_parity = 1
    /\ sq_x = 39500
    /\ sq_y = 0
    /\ sq_y2 = 37000
    /\ sq_delta = 292
    /\ sq_delta2 = 292

\* a configuration the spec calls invalid
ConfigurationInvalid ==
    \/ 2 * transition_length >= wavelength
    \/ infill_amplitude < 0
    \/ wavelength < 0
    \/ bricklayer_shift < 0
    \/ layer_group_size < 1

\* C17: a processor with an invalid configuration is rejected before any
\* input line is read or any output is written: no call of process_gcode
\* opens the files, reads or writes with such a configuration; with
\* layer_group_size = 0 no flush gets to the accumulator update, where the
\* modulo raises ZeroDivisionError.
C17_NoPassOnInvalid ==
    ConfigurationInvalid
        => /\ pc \notin {"reading", "done", "failed"}
           /\ f_in = <<>>
           /\ f_out = <<>>

C17_NoFlushWithGroupSizeZero ==
    layer_group_size = 0 => error # "ZeroDivisionError"

C17_InvalidConfigurationRejected ==
    C17_NoPassOnInvalid /\ C17_NoFlushWithGroupSizeZero

\* C18: a line with an axis token whose numeric suffix is no decimal number
\* is never written to the output, and a pass that has read such a line
\* does not complete, whichever feature the line is processed with.
C18_MalformedNumberFails ==
    \A i \in Kept :
        HasMalformedToken(f_in[i]) => ~Emitted(i) /\ pc # "done"

====
